---------------------------- MODULE Spec2Model ----------------------------
(***************************************************************************)
(* Model of the control-flow-graph builder of prusti-dev,                  *)
(* src/src/cfg_factory/method.rs: CfgMethod (new, add_block,               *)
(* set_successor, to_ast) and the lowering helpers index_to_label,         *)
(* return_label, successor_to_ast and block_to_ast.                        *)
(*                                                                         *)
(* A label is a sequence of characters (one-character strings), so that    *)
(* the character tests of add_block are computed and not assumed.  The     *)
(* Viper AST built through AstFactory is modelled as records that keep     *)
(* the constructor and its arguments.  A failed assert!/assert_eq!/index   *)
(* check is a panic: the call is recorded with status "panic" and has the  *)
(* effects the code had before the panicking line.                         *)
(***************************************************************************)
EXTENDS Naturals, Sequences, FiniteSets

(***************************************************************************)
(* methods[g]  the CfgMethod value of builder g (fields of the struct);    *)
(*             after to_ast(self) it is the value that was moved out       *)
(* alive[g]    g has not been consumed by to_ast                           *)
(* lowered[g]  what to_ast(g) returned: none yet, Ok(method) or a panic    *)
(* assigned[g] history: per block, the successor of the last successful    *)
(*             set_successor on it, NotSet when there was none             *)
(* created[g]  history: the (label, invs, stmt) arguments of the           *)
(*             successful add_block calls on g and the token each call     *)
(*             returned, in call order                                     *)
(* writes      history: the number of successful set_successor calls       *)
(* last        the last call: its name, whether it panicked, and the       *)
(*             CfgBlockIndex it returned                                   *)
(*                                                                         *)
(* Two builders exist, with different uuids (Uuid::new_v4 is taken to      *)
(* never repeat).  is_alphabetic and is_alphanumeric are the Unicode       *)
(* tests of char; "letter" and "digit" are read in that sense.             *)
(***************************************************************************)
VARIABLES methods, alive, lowered, assigned, created, writes, last

vars == <<methods, alive, lowered, assigned, created, writes, last>>

-----------------------------------------------------------------------------
(* Bounds of the model *)

\* total number of blocks the builders of one run hold
MaxBlocks == 2
\* number of successful set_successor calls of one run
MaxWrites == 2
\* length of the pair list of a GotoSwitch drawn in LowerSpec
MaxPairs == 2

-----------------------------------------------------------------------------
(* Characters and labels *)

Letters == {"a", "e", "n", "r", "t", "u"}
Digits == {"1"}
Underscore == "_"
Hyphen == "-"

\* char::is_alphabetic and char::is_alphanumeric on the model's characters
is_alphabetic(c) == c \in Letters
is_numeric(c) == c \in Digits
is_alphanumeric(c) == is_alphabetic(c) \/ is_numeric(c)

RETURN_LABEL == <<"r", "e", "t", "u", "r", "n">>

return_label == RETURN_LABEL

\* the labels handed to add_block
LabelInputs ==
    { <<>>, <<"a">>, <<Underscore, "1">>,
      <<"1">>, <<"a", Hyphen>>, RETURN_LABEL }

\* the (label, invs, stmt) argument triples handed to add_block
BlockInputs ==
    { [label |-> l,
       invs  |-> IF Len(l) = 1 THEN <<"inv_a">> ELSE <<>>,
       stmt  |-> [node |-> "Stmt", id |-> IF Len(l) = 1 THEN "s_a" ELSE "s_b"]]
      : l \in LabelInputs }

-----------------------------------------------------------------------------
(* The graphs of a run *)

Graphs == {"G1", "G2"}

\* Uuid::new_v4(): a fresh identity per CfgMethod
new_uuid(g) == IF g = "G1" THEN "uuid_1" ELSE "uuid_2"

\* CfgBlockIndex
CfgBlockIndex(uuid, index) == [method_uuid |-> uuid, block_index |-> index]

NoIndex == [method_uuid |-> "none"]

\* Successor
Unreachable == [kind |-> "Unreachable"]
Return == [kind |-> "Return"]
Goto(target) == [kind |-> "Goto", target |-> target]
GotoSwitch(successors, default_target) ==
    [kind |-> "GotoSwitch", successors |-> successors,
     default_target |-> default_target]
GotoIf(test, then_target, else_target) ==
    [kind |-> "GotoIf", test |-> test, then_target |-> then_target,
     else_target |-> else_target]

\* CfgBlock
CfgBlock(invs, stmt, successor) ==
    [invs |-> invs, stmt |-> stmt, successor |-> successor]

\* LocalVarDecl values (opaque to the builder)
LocalVarDecl(name) == [node |-> "LocalVarDecl", name |-> name]

\* the signature each builder is created with
Signature(g) ==
    IF g = "G1"
    THEN [method_name |-> "m1",
          formal_args |-> <<LocalVarDecl("arg_x")>>,
          formal_returns |-> <<LocalVarDecl("ret_r")>>,
          local_vars |-> <<LocalVarDecl("loc_p"), LocalVarDecl("loc_q")>>]
    ELSE [method_name |-> "m2", formal_args |-> <<>>,
          formal_returns |-> <<>>, local_vars |-> <<>>]

\* CfgMethod::new
new(g, method_name, formal_args, formal_returns, local_vars) ==
    [uuid |-> new_uuid(g),
     method_name |-> method_name,
     formal_args |-> formal_args,
     formal_returns |-> formal_returns,
     local_vars |-> local_vars,
     basic_blocks |-> <<>>,
     basic_blocks_labels |-> <<>>]

NotSet == [kind |-> "NotSet"]
NotLowered == [result |-> "none"]

TotalBlocks ==
    Len(methods["G1"].basic_blocks) + Len(methods["G2"].basic_blocks)

\* the CfgBlockIndex values that name the blocks of the graphs ms
\* (CfgBlockIndex is Copy and outlives the CfgMethod that minted it)
TokensOf(ms) ==
    UNION { { CfgBlockIndex(ms[g].uuid, i - 1) :
                i \in 1..Len(ms[g].basic_blocks) } : g \in Graphs }

\* the tokens the add_block calls have returned so far
Minted ==
    UNION { { created[g][i].token : i \in 1..Len(created[g]) } :
              g \in Graphs }

Init ==
    /\ methods = [g \in Graphs |->
         new(g, Signature(g).method_name, Signature(g).formal_args,
             Signature(g).formal_returns, Signature(g).local_vars)]
    /\ alive = [g \in Graphs |-> TRUE]
    /\ lowered = [g \in Graphs |-> NotLowered]
    /\ assigned = [g \in Graphs |-> <<>>]
    /\ created = [g \in Graphs |-> <<>>]
    /\ writes = 0
    /\ last = [op |-> "new", status |-> "ok", ret |-> NoIndex]

-----------------------------------------------------------------------------
(* add_block *)

\* add_block whose second assert! accepts letters and '_' only
add_block_asserts_letters_only(self, label) ==
    /\ \A i \in 1..Len(label) :
          i = 1 => (is_alphabetic(label[i]) \/ label[i] = Underscore)
    /\ \A i \in 2..Len(label) : is_alphabetic(label[i]) \/ label[i] = Underscore
    /\ \A k \in 1..Len(self.basic_blocks_labels) : self.basic_blocks_labels[k] /= label
    /\ label /= RETURN_LABEL

\* add_block without the assert! on existing labels
add_block_asserts_no_unique(self, label) ==
    /\ \A i \in 1..Len(label) :
          i = 1 => (is_alphabetic(label[i]) \/ label[i] = Underscore)
    /\ \A i \in 2..Len(label) : is_alphanumeric(label[i]) \/ label[i] = Underscore
    /\ label /= RETURN_LABEL

\* the four assert! of add_block
add_block_asserts(self, label) ==
    /\ \A i \in 1..Len(label) :
          i = 1 => (is_alphabetic(label[i]) \/ label[i] = Underscore)
    /\ \A i \in 2..Len(label) : is_alphanumeric(label[i]) \/ label[i] = Underscore
    /\ \A k \in 1..Len(self.basic_blocks_labels) : self.basic_blocks_labels[k] /= label
    /\ label /= RETURN_LABEL

\* add_block whose new block defaults to Return
new_block_returning(invs, stmt) == CfgBlock(invs, stmt, Return)

\* the CfgBlock add_block pushes
new_block(invs, stmt) == CfgBlock(invs, stmt, Unreachable)

\* add_block that returns the length after the push as the position
add_block_returning_length(g, label, invs, stmt) ==
    /\ alive[g]
    /\ IF add_block_asserts(methods[g], label)
       THEN /\ TotalBlocks < MaxBlocks
            /\ LET index == Len(methods[g].basic_blocks) + 1
               IN /\ last' = [op |-> "add_block", status |-> "ok",
                              ret |-> CfgBlockIndex(methods[g].uuid, index)]
                  /\ methods' = [methods EXCEPT
                        ![g].basic_blocks_labels = Append(@, label),
                        ![g].basic_blocks =
                            Append(@, new_block(invs, stmt))]
            /\ assigned' = [assigned EXCEPT ![g] = Append(@, NotSet)]
            /\ created' = [created EXCEPT ![g] =
                  Append(@, [label |-> label, invs |-> invs, stmt |-> stmt,
                             token |-> last'.ret])]
       ELSE /\ last' = [op |-> "add_block", status |-> "panic",
                        ret |-> NoIndex]
            /\ UNCHANGED <<methods, assigned, created>>
    /\ UNCHANGED <<alive, lowered, writes>>

add_block_prepending(g, label, invs, stmt) ==
    /\ alive[g]
    /\ IF add_block_asserts(methods[g], label)
       THEN /\ TotalBlocks < MaxBlocks
            /\ LET index == Len(methods[g].basic_blocks)
               IN /\ last' = [op |-> "add_block", status |-> "ok",
                              ret |-> CfgBlockIndex(methods[g].uuid, index)]
                  /\ methods' = [methods EXCEPT
                        ![g].basic_blocks_labels = <<label>> \o @,
                        ![g].basic_blocks =
                            <<new_block(invs, stmt)>> \o @]
            /\ assigned' = [assigned EXCEPT ![g] = Append(@, NotSet)]
            /\ created' = [created EXCEPT ![g] =
                  Append(@, [label |-> label, invs |-> invs, stmt |-> stmt,
                             token |-> last'.ret])]
       ELSE /\ last' = [op |-> "add_block", status |-> "panic",
                        ret |-> NoIndex]
            /\ UNCHANGED <<methods, assigned, created>>
    /\ UNCHANGED <<alive, lowered, writes>>

add_block(g, label, invs, stmt) ==
    /\ alive[g]
    /\ IF add_block_asserts(methods[g], label)
       THEN /\ TotalBlocks < MaxBlocks
            /\ LET index == Len(methods[g].basic_blocks)
               IN /\ last' = [op |-> "add_block", status |-> "ok",
                              ret |-> CfgBlockIndex(methods[g].uuid, index)]
                  /\ methods' = [methods EXCEPT
                        ![g].basic_blocks_labels = Append(@, label),
                        ![g].basic_blocks =
                            Append(@, new_block(invs, stmt))]
            /\ assigned' = [assigned EXCEPT ![g] = Append(@, NotSet)]
            /\ created' = [created EXCEPT ![g] =
                  Append(@, [label |-> label, invs |-> invs, stmt |-> stmt,
                             token |-> last'.ret])]
       ELSE /\ last' = [op |-> "add_block", status |-> "panic",
                        ret |-> NoIndex]
            /\ UNCHANGED <<methods, assigned, created>>
    /\ UNCHANGED <<alive, lowered, writes>>

-----------------------------------------------------------------------------
(* set_successor *)

\* set_successor that assigns the successor to every block of the graph
set_successor_every_block(g, index, successor) ==
    /\ alive[g]
    /\ IF methods[g].uuid = index.method_uuid
       THEN IF index.block_index < Len(methods[g].basic_blocks)
            THEN /\ writes < MaxWrites
                 /\ last' = [op |-> "set_successor", status |-> "ok",
                             ret |-> NoIndex]
                 /\ methods' = [methods EXCEPT ![g].basic_blocks =
                       [i \in 1..Len(@) |->
                           [@[i] EXCEPT !.successor = successor]]]
                 /\ assigned' = [assigned EXCEPT
                       ![g][index.block_index + 1] = successor]
                 /\ writes' = writes + 1
            ELSE /\ last' = [op |-> "set_successor", status |-> "panic",
                             ret |-> NoIndex]
                 /\ UNCHANGED <<methods, assigned, writes>>
       ELSE /\ last' = [op |-> "set_successor", status |-> "panic",
                        ret |-> NoIndex]
            /\ UNCHANGED <<methods, assigned, writes>>
    /\ UNCHANGED <<alive, lowered, created>>

\* set_successor without the assert_eq! on the uuid
set_successor_unchecked(g, index, successor) ==
    /\ alive[g]
    /\ IF index.block_index < Len(methods[g].basic_blocks)
       THEN /\ writes < MaxWrites
            /\ last' = [op |-> "set_successor", status |-> "ok",
                        ret |-> NoIndex]
            /\ methods' = [methods EXCEPT
                  ![g].basic_blocks[index.block_index + 1].successor =
                      successor]
            /\ assigned' = [assigned EXCEPT
                  ![g][index.block_index + 1] = successor]
            /\ writes' = writes + 1
       ELSE /\ last' = [op |-> "set_successor", status |-> "panic",
                        ret |-> NoIndex]
            /\ UNCHANGED <<methods, assigned, writes>>
    /\ UNCHANGED <<alive, lowered, created>>

\* set_successor that keeps a successor that was already assigned
set_successor_keep_first(g, index, successor) ==
    /\ alive[g]
    /\ IF methods[g].uuid = index.method_uuid
       THEN IF index.block_index < Len(methods[g].basic_blocks)
            THEN /\ writes < MaxWrites
                 /\ last' = [op |-> "set_successor", status |-> "ok",
                             ret |-> NoIndex]
                 /\ methods' = [methods EXCEPT
                       ![g].basic_blocks[index.block_index + 1].successor =
                           IF @ = Unreachable THEN successor ELSE @]
                 /\ assigned' = [assigned EXCEPT
                       ![g][index.block_index + 1] = successor]
                 /\ writes' = writes + 1
            ELSE /\ last' = [op |-> "set_successor", status |-> "panic",
                             ret |-> NoIndex]
                 /\ UNCHANGED <<methods, assigned, writes>>
       ELSE /\ last' = [op |-> "set_successor", status |-> "panic",
                        ret |-> NoIndex]
            /\ UNCHANGED <<methods, assigned, writes>>
    /\ UNCHANGED <<alive, lowered, created>>

set_successor(g, index, successor) ==
    /\ alive[g]
    /\ IF methods[g].uuid = index.method_uuid
       THEN IF index.block_index < Len(methods[g].basic_blocks)
            THEN /\ writes < MaxWrites
                 /\ last' = [op |-> "set_successor", status |-> "ok",
                             ret |-> NoIndex]
                 /\ methods' = [methods EXCEPT
                       ![g].basic_blocks[index.block_index + 1].successor =
                           successor]
                 /\ assigned' = [assigned EXCEPT
                       ![g][index.block_index + 1] = successor]
                 /\ writes' = writes + 1
            ELSE /\ last' = [op |-> "set_successor", status |-> "panic",
                             ret |-> NoIndex]
                 /\ UNCHANGED <<methods, assigned, writes>>
       ELSE /\ last' = [op |-> "set_successor", status |-> "panic",
                        ret |-> NoIndex]
            /\ UNCHANGED <<methods, assigned, writes>>
    /\ UNCHANGED <<alive, lowered, created>>

-----------------------------------------------------------------------------
(* The AstFactory constructors used by the lowering *)

ast_false_lit == [node |-> "FalseLit"]
ast_no_position == [node |-> "NoPosition"]
ast_assert(exp, pos) == [node |-> "Assert", exp |-> exp, pos |-> pos]
ast_goto(target) == [node |-> "Goto", target |-> target]
ast_if_stmt(cond, thn, els) ==
    [node |-> "If", cond |-> cond, thn |-> thn, els |-> els]
ast_seqn(stmts, decls) == [node |-> "Seqn", stmts |-> stmts, decls |-> decls]
ast_label(name, invs) == [node |-> "Label", name |-> name, invs |-> invs]
ast_method(name, formal_args, formal_returns, pres, posts, body) ==
    [node |-> "Method", name |-> name, formal_args |-> formal_args,
     formal_returns |-> formal_returns, pres |-> pres, posts |-> posts,
     body |-> body]
\* From<LocalVarDecl> and From<Stmt> for Declaration
into_declaration(x) == [node |-> "Declaration", of |-> x]

-----------------------------------------------------------------------------
(* Lowering *)

\* a slice index that rejects the last position
index_in_bounds_short(basic_block_labels, index) ==
    index + 1 < Len(basic_block_labels)

\* basic_block_labels[index]: the slice index panics when out of range
index_in_bounds(basic_block_labels, index) == index < Len(basic_block_labels)

index_to_label(basic_block_labels, index) == basic_block_labels[index + 1]

\* the block_index values successor_to_ast hands to index_to_label
successor_indices(successor) ==
    IF successor.kind = "Goto" THEN <<successor.target.block_index>>
    ELSE IF successor.kind = "GotoSwitch"
    THEN [i \in 1..Len(successor.successors) |->
            successor.successors[i][2].block_index]
         \o <<successor.default_target.block_index>>
    ELSE IF successor.kind = "GotoIf"
    THEN <<successor.then_target.block_index,
           successor.else_target.block_index>>
    ELSE <<>>

\* successor_to_ast panics in index_to_label
successor_to_ast_panics(basic_block_labels, successor) ==
    \E i \in 1..Len(successor_indices(successor)) :
        ~ index_in_bounds(basic_block_labels, successor_indices(successor)[i])

\* successor_to_ast that emits no default goto after the conditional gotos
successor_to_ast_no_default(basic_block_labels, successor) ==
    IF successor.kind = "Unreachable"
    THEN ast_assert(ast_false_lit, ast_no_position)
    ELSE IF successor.kind = "Return"
    THEN ast_goto(return_label)
    ELSE IF successor.kind = "Goto"
    THEN ast_goto(index_to_label(basic_block_labels,
                                 successor.target.block_index))
    ELSE IF successor.kind = "GotoSwitch"
    THEN LET skip == ast_seqn(<<>>, <<>>)
             stmts == [i \in 1..Len(successor.successors) |->
                 ast_if_stmt(successor.successors[i][1],
                     ast_goto(index_to_label(basic_block_labels,
                         successor.successors[i][2].block_index)),
                     skip)]
         IN ast_seqn(stmts, <<>>)
    ELSE LET then_goto ==
                 ast_goto(index_to_label(basic_block_labels,
                     successor.then_target.block_index))
             else_goto ==
                 ast_goto(index_to_label(basic_block_labels,
                     successor.else_target.block_index))
         IN ast_if_stmt(successor.test, then_goto, else_goto)

\* successor_to_ast that emits the conditional gotos of a switch in reverse
successor_to_ast_reversed(basic_block_labels, successor) ==
    IF successor.kind = "Unreachable"
    THEN ast_assert(ast_false_lit, ast_no_position)
    ELSE IF successor.kind = "Return"
    THEN ast_goto(return_label)
    ELSE IF successor.kind = "Goto"
    THEN ast_goto(index_to_label(basic_block_labels,
                                 successor.target.block_index))
    ELSE IF successor.kind = "GotoSwitch"
    THEN LET skip == ast_seqn(<<>>, <<>>)
             n == Len(successor.successors)
             stmts == [i \in 1..n |->
                 ast_if_stmt(successor.successors[n + 1 - i][1],
                     ast_goto(index_to_label(basic_block_labels,
                         successor.successors[n + 1 - i][2].block_index)),
                     skip)]
             default_goto ==
                 ast_goto(index_to_label(basic_block_labels,
                     successor.default_target.block_index))
         IN ast_seqn(Append(stmts, default_goto), <<>>)
    ELSE LET then_goto ==
                 ast_goto(index_to_label(basic_block_labels,
                     successor.then_target.block_index))
             else_goto ==
                 ast_goto(index_to_label(basic_block_labels,
                     successor.else_target.block_index))
         IN ast_if_stmt(successor.test, then_goto, else_goto)

\* successor_to_ast with the branches of a GotoIf exchanged
successor_to_ast_swapped(basic_block_labels, successor) ==
    IF successor.kind = "Unreachable"
    THEN ast_assert(ast_false_lit, ast_no_position)
    ELSE IF successor.kind = "Return"
    THEN ast_goto(return_label)
    ELSE IF successor.kind = "Goto"
    THEN ast_goto(index_to_label(basic_block_labels,
                                 successor.target.block_index))
    ELSE IF successor.kind = "GotoSwitch"
    THEN LET skip == ast_seqn(<<>>, <<>>)
             stmts == [i \in 1..Len(successor.successors) |->
                 ast_if_stmt(successor.successors[i][1],
                     ast_goto(index_to_label(basic_block_labels,
                         successor.successors[i][2].block_index)),
                     skip)]
             default_goto ==
                 ast_goto(index_to_label(basic_block_labels,
                     successor.default_target.block_index))
         IN ast_seqn(Append(stmts, default_goto), <<>>)
    ELSE LET then_goto ==
                 ast_goto(index_to_label(basic_block_labels,
                     successor.then_target.block_index))
             else_goto ==
                 ast_goto(index_to_label(basic_block_labels,
                     successor.else_target.block_index))
         IN ast_if_stmt(successor.test, else_goto, then_goto)

successor_to_ast(basic_block_labels, successor) ==
    IF successor.kind = "Unreachable"
    THEN ast_assert(ast_false_lit, ast_no_position)
    ELSE IF successor.kind = "Return"
    THEN ast_goto(return_label)
    ELSE IF successor.kind = "Goto"
    THEN ast_goto(index_to_label(basic_block_labels,
                                 successor.target.block_index))
    ELSE IF successor.kind = "GotoSwitch"
    THEN LET skip == ast_seqn(<<>>, <<>>)
             stmts == [i \in 1..Len(successor.successors) |->
                 ast_if_stmt(successor.successors[i][1],
                     ast_goto(index_to_label(basic_block_labels,
                         successor.successors[i][2].block_index)),
                     skip)]
             default_goto ==
                 ast_goto(index_to_label(basic_block_labels,
                     successor.default_target.block_index))
         IN ast_seqn(Append(stmts, default_goto), <<>>)
    ELSE LET then_goto ==
                 ast_goto(index_to_label(basic_block_labels,
                     successor.then_target.block_index))
             else_goto ==
                 ast_goto(index_to_label(basic_block_labels,
                     successor.else_target.block_index))
         IN ast_if_stmt(successor.test, then_goto, else_goto)

block_to_ast(basic_block_labels, block, index) ==
    LET label == index_to_label(basic_block_labels, index)
    IN ast_seqn(<<ast_label(label, block.invs),
                  block.stmt,
                  successor_to_ast(basic_block_labels, block.successor)>>,
                <<>>)

\* to_ast panics while lowering some block
to_ast_panics(self) ==
    \E i \in 1..Len(self.basic_blocks) :
        successor_to_ast_panics(self.basic_blocks_labels,
                                self.basic_blocks[i].successor)

\* to_ast that declares the labels before the locals
to_ast_method_labels_first(self) ==
    LET n == Len(self.basic_blocks)
        blocks_ast ==
            [i \in 1..n |->
                block_to_ast(self.basic_blocks_labels,
                             self.basic_blocks[i], i - 1)]
            \o <<ast_label(return_label, <<>>)>>
        declarations ==
            [i \in 1..n |->
                into_declaration(ast_label(
                    index_to_label(self.basic_blocks_labels, i - 1), <<>>))]
            \o <<into_declaration(ast_label(return_label, <<>>))>>
            \o [i \in 1..Len(self.local_vars) |->
                into_declaration(self.local_vars[i])]
        method_body == ast_seqn(blocks_ast, declarations)
    IN ast_method(self.method_name, self.formal_args, self.formal_returns,
                  <<>>, <<>>, method_body)

\* to_ast that names the terminal label marker after the graph identity
to_ast_method_tagged(self) ==
    LET n == Len(self.basic_blocks)
        blocks_ast ==
            [i \in 1..n |->
                block_to_ast(self.basic_blocks_labels,
                             self.basic_blocks[i], i - 1)]
            \o <<ast_label(<<self.uuid>>, <<>>)>>
        declarations ==
            [i \in 1..Len(self.local_vars) |->
                into_declaration(self.local_vars[i])]
            \o [i \in 1..n |->
                into_declaration(ast_label(
                    index_to_label(self.basic_blocks_labels, i - 1), <<>>))]
            \o <<into_declaration(ast_label(return_label, <<>>))>>
        method_body == ast_seqn(blocks_ast, declarations)
    IN ast_method(self.method_name, self.formal_args, self.formal_returns,
                  <<>>, <<>>, method_body)

\* to_ast that declares the locals only when the graph has a block
to_ast_method_no_locals_when_empty(self) ==
    LET n == Len(self.basic_blocks)
        blocks_ast ==
            [i \in 1..n |->
                block_to_ast(self.basic_blocks_labels,
                             self.basic_blocks[i], i - 1)]
            \o <<ast_label(return_label, <<>>)>>
        declarations ==
            [i \in 1..(IF n = 0 THEN 0 ELSE Len(self.local_vars)) |->
                into_declaration(self.local_vars[i])]
            \o [i \in 1..n |->
                into_declaration(ast_label(
                    index_to_label(self.basic_blocks_labels, i - 1), <<>>))]
            \o <<into_declaration(ast_label(return_label, <<>>))>>
        method_body == ast_seqn(blocks_ast, declarations)
    IN ast_method(self.method_name, self.formal_args, self.formal_returns,
                  <<>>, <<>>, method_body)

\* the Method to_ast returns
to_ast_method(self) ==
    LET n == Len(self.basic_blocks)
        blocks_ast ==
            [i \in 1..n |->
                block_to_ast(self.basic_blocks_labels,
                             self.basic_blocks[i], i - 1)]
            \o <<ast_label(return_label, <<>>)>>
        declarations ==
            [i \in 1..Len(self.local_vars) |->
                into_declaration(self.local_vars[i])]
            \o [i \in 1..n |->
                into_declaration(ast_label(
                    index_to_label(self.basic_blocks_labels, i - 1), <<>>))]
            \o <<into_declaration(ast_label(return_label, <<>>))>>
        method_body == ast_seqn(blocks_ast, declarations)
    IN ast_method(self.method_name, self.formal_args, self.formal_returns,
                  <<>>, <<>>, method_body)

\* to_ast that borrows the builder and leaves it usable
to_ast_borrowing(g) ==
    /\ alive[g]
    /\ IF to_ast_panics(methods[g])
       THEN /\ lowered' = [lowered EXCEPT ![g] = [result |-> "panic"]]
            /\ last' = [op |-> "to_ast", status |-> "panic",
                        ret |-> NoIndex]
       ELSE /\ lowered' = [lowered EXCEPT ![g] =
                   [result |-> "Ok", method |-> to_ast_method(methods[g])]]
            /\ last' = [op |-> "to_ast", status |-> "ok",
                        ret |-> NoIndex]
    /\ UNCHANGED <<methods, alive, assigned, created, writes>>

to_ast(g) ==
    /\ alive[g]
    /\ alive' = [alive EXCEPT ![g] = FALSE]
    /\ IF to_ast_panics(methods[g])
       THEN /\ lowered' = [lowered EXCEPT ![g] = [result |-> "panic"]]
            /\ last' = [op |-> "to_ast", status |-> "panic",
                        ret |-> NoIndex]
       ELSE /\ lowered' = [lowered EXCEPT ![g] =
                   [result |-> "Ok", method |-> to_ast_method(methods[g])]]
            /\ last' = [op |-> "to_ast", status |-> "ok",
                        ret |-> NoIndex]
    /\ UNCHANGED <<methods, assigned, created, writes>>

-----------------------------------------------------------------------------
(* The successors handed to set_successor *)

SeqsUpTo(S, n) == UNION { [1..k -> S] : k \in 0..n }

\* the branch conditions (opaque Expr values)
Conds == {"c1", "c2"}

\* every Successor over the given tokens, with at most maxPairs switch pairs
Successors(tokens, maxPairs) ==
    {Unreachable, Return}
    \cup { Goto(t) : t \in tokens }
    \cup { GotoIf(c, t, e) : c \in Conds, t \in tokens, e \in tokens }
    \cup { GotoSwitch(ps, d) :
             ps \in SeqsUpTo(Conds \X tokens, maxPairs), d \in tokens }

\* the successors the callers of Spec pass
BuildSuccessors(tokens) ==
    {Unreachable, Return} \cup { Goto(t) : t \in tokens }

-----------------------------------------------------------------------------
(* Spec: any interleaving of add_block, set_successor and to_ast on the two
   builders *)

Next ==
    \E g \in Graphs :
        \/ \E b \in BlockInputs : add_block(g, b.label, b.invs, b.stmt)
        \/ \E t \in Minted :
             \E s \in BuildSuccessors(Minted) : set_successor(g, t, s)
        \/ to_ast(g)

Spec == Init /\ [][Next]_vars

-----------------------------------------------------------------------------
(* LowerSpec: the lowering applied to graphs that carry one successor of any
   shape.  The initial states are the states the calls
   G1.add_block("a"), G1.add_block("_1"), G2.add_block("e") followed by one
   set_successor(token, s) lead to, for every minted token and every s. *)

LowerBlocks(g) ==
    IF g = "G1"
    THEN << [label |-> <<"a">>, invs |-> <<"inv_a">>,
             stmt |-> [node |-> "Stmt", id |-> "s_a"]],
            [label |-> <<Underscore, "1">>, invs |-> <<>>,
             stmt |-> [node |-> "Stmt", id |-> "s_b"]] >>
    ELSE << [label |-> <<"e">>, invs |-> <<"inv_a">>,
             stmt |-> [node |-> "Stmt", id |-> "s_a"]] >>

LowerBase ==
    [g \in Graphs |->
        [ new(g, Signature(g).method_name, Signature(g).formal_args,
              Signature(g).formal_returns, Signature(g).local_vars)
          EXCEPT
            !.basic_blocks_labels =
                [i \in 1..Len(LowerBlocks(g)) |-> LowerBlocks(g)[i].label],
            !.basic_blocks =
                [i \in 1..Len(LowerBlocks(g)) |->
                    new_block(LowerBlocks(g)[i].invs,
                              LowerBlocks(g)[i].stmt)] ] ]

LowerInit ==
    \E g \in Graphs :
      \E i \in 1..Len(LowerBase[g].basic_blocks) :
        \E s \in Successors(TokensOf(LowerBase), MaxPairs) :
          /\ methods = [LowerBase EXCEPT ![g].basic_blocks[i].successor = s]
          /\ assigned = [h \in Graphs |->
                [k \in 1..Len(LowerBase[h].basic_blocks) |->
                    IF h = g /\ k = i THEN s ELSE NotSet]]
          /\ created = [h \in Graphs |->
                [k \in 1..Len(LowerBlocks(h)) |->
                    [label |-> LowerBlocks(h)[k].label,
                     invs |-> LowerBlocks(h)[k].invs,
                     stmt |-> LowerBlocks(h)[k].stmt,
                     token |-> CfgBlockIndex(LowerBase[h].uuid, k - 1)]]]
          /\ alive = [h \in Graphs |-> TRUE]
          /\ lowered = [h \in Graphs |-> NotLowered]
          /\ writes = 1
          /\ last = [op |-> "set_successor", status |-> "ok", ret |-> NoIndex]

LowerNext == \E g \in Graphs : to_ast(g)

LowerSpec == LowerInit /\ [][LowerNext]_vars

-----------------------------------------------------------------------------
(* Vocabulary of the properties *)

\* the builder that minted a token
GraphOf(token) == CHOOSE g \in Graphs : methods[g].uuid = token.method_uuid

\* the label given to the block a token names, in the graph that minted it
LabelOf(token) ==
    methods[GraphOf(token)].basic_blocks_labels[token.block_index + 1]

\* the tokens a successor jumps to
successor_targets(successor) ==
    IF successor.kind = "Goto" THEN {successor.target}
    ELSE IF successor.kind = "GotoSwitch"
    THEN { successor.successors[i][2] : i \in 1..Len(successor.successors) }
         \cup {successor.default_target}
    ELSE IF successor.kind = "GotoIf"
    THEN {successor.then_target, successor.else_target}
    ELSE {}

\* a block of g jumps to a block of another graph
HasForeignTarget(g) ==
    \E i \in 1..Len(methods[g].basic_blocks) :
        \E t \in successor_targets(methods[g].basic_blocks[i].successor) :
            t.method_uuid /= methods[g].uuid

\* the lexical rule of labels: a letter or '_', then letters, digits or '_'
LexicalRule(label) ==
    /\ Len(label) >= 1
    /\ label[1] \in Letters \cup {Underscore}
    /\ \A i \in 2..Len(label) : label[i] \in Letters \cup Digits \cup {Underscore}

IsExistingLabel(g, label) ==
    \E k \in 1..Len(methods[g].basic_blocks_labels) :
        methods[g].basic_blocks_labels[k] = label

\* the statements of the lowered body of g, and its declarations
LoweredStmts(g) == lowered[g].method.body.stmts
LoweredDecls(g) == lowered[g].method.body.decls
IsLowered(g) == lowered[g].result = "Ok"

\* the names of the label declarations of the lowered body, in order
LabelDeclNames(g) ==
    LET labelDecls == SelectSeq(LoweredDecls(g),
                                LAMBDA d : d.of.node = "Label")
    IN [k \in 1..Len(labelDecls) |-> labelDecls[k].of.name]

PairwiseDistinct(seq) ==
    \A i \in 1..Len(seq) : \A j \in 1..Len(seq) : i /= j => seq[i] /= seq[j]

-----------------------------------------------------------------------------
(* C1: a token of graph G used against another graph G' is never resolved
   against G': when a block of G' stores a successor that jumps to a token
   minted by another graph, lowering G' does not return a procedure.        *)
C1_ForeignTargetNeverLowered ==
    \A g \in Graphs : HasForeignTarget(g) => ~ IsLowered(g)

(* C2: set_successor on G' with a token minted by another graph fails for
   every successor and leaves the blocks, labels and successors of every
   graph as they were: a step that is a set_successor call either fails
   and changes no graph, or is not a call with a foreign token.            *)
C2_ForeignIndexFails ==
    [][\/ last'.op /= "set_successor"
       \/ /\ last'.status = "panic"
          /\ methods' = methods
       \/ \A g \in Graphs : \A t \in Minted :
            t.method_uuid /= methods[g].uuid =>
              \A s \in BuildSuccessors(Minted) : ~ set_successor(g, t, s)]_vars

\* a set_successor call has just failed although blocks exist in both graphs
C2_Witness ==
    /\ last.op = "set_successor"
    /\ last.status = "panic"
    /\ \A g \in Graphs : Len(methods[g].basic_blocks) >= 1

(* C3: add_block with a label that is already a label of the graph, or is
   "return", or breaks the lexical rule fails and changes no block, label or
   successor.                                                               *)
C3_BadLabelFails ==
    [][\A g \in Graphs : \A b \in BlockInputs :
          ( /\ \/ IsExistingLabel(g, b.label)
               \/ b.label = RETURN_LABEL
               \/ ~ LexicalRule(b.label)
            /\ add_block(g, b.label, b.invs, b.stmt) )
          => /\ last'.status = "panic"
             /\ methods' = methods]_vars

(* C4: add_block with a label that satisfies the lexical rule, is not
   "return" and is not yet a label of the graph succeeds, adds exactly one
   block, and returns a token whose position is the block count before the
   call and whose identity is the builder's: for every graph, a step that
   is an add_block call either is such a successful call on the graph, or
   is not a call on it with a fresh valid label.                            *)
C4_FreshValidLabelAdds ==
    [][\A g \in Graphs :
          \/ last'.op /= "add_block"
          \/ /\ last'.status = "ok"
             /\ last'.ret = CfgBlockIndex(methods[g].uuid,
                                          Len(methods[g].basic_blocks))
             /\ Len(methods'[g].basic_blocks) =
                    Len(methods[g].basic_blocks) + 1
             /\ \A h \in Graphs \ {g} :
                    Len(methods'[h].basic_blocks) = Len(methods[h].basic_blocks)
          \/ \A b \in BlockInputs :
                ( /\ LexicalRule(b.label)
                  /\ b.label /= RETURN_LABEL
                  /\ ~ IsExistingLabel(g, b.label) )
                => ~ add_block(g, b.label, b.invs, b.stmt)]_vars

\* add_block has just returned the token of a second block whose label has
\* an underscore and a digit
C4_Witness ==
    /\ last.op = "add_block"
    /\ last.status = "ok"
    /\ last.ret.block_index = 1
    /\ LabelOf(last.ret) = <<Underscore, "1">>

(* C5: the labels of a graph are pairwise distinct and none is "return";
   the label declarations of a lowered graph are its blocks' labels and
   "return", blocks + 1 pairwise distinct names.                            *)
C5_LabelsDistinct ==
    \A g \in Graphs :
        /\ PairwiseDistinct(methods[g].basic_blocks_labels)
        /\ \A k \in 1..Len(methods[g].basic_blocks_labels) :
              methods[g].basic_blocks_labels[k] /= RETURN_LABEL
        /\ IsLowered(g) =>
              /\ Len(LabelDeclNames(g)) = Len(methods[g].basic_blocks) + 1
              /\ PairwiseDistinct(LabelDeclNames(g))

\* a graph of two blocks has been lowered: three label declarations
C5_Witness ==
    \E g \in Graphs :
        /\ IsLowered(g)
        /\ Len(methods[g].basic_blocks) >= 2
        /\ Len(LabelDeclNames(g)) >= 3

(* C6: every label stored in a graph starts with a letter or underscore and
   continues with letters, digits or underscores.                           *)
C6_LabelsLexical ==
    \A g \in Graphs :
        \A k \in 1..Len(methods[g].basic_blocks_labels) :
            LexicalRule(methods[g].basic_blocks_labels[k])

-----------------------------------------------------------------------------
(* Execution of a lowered statement under goto semantics: a taken goto
   transfers control and nothing after it runs; an assertion of false stops
   the execution; labels and block bodies fall through.  v gives the truth
   value of every branch condition.                                        *)

Falls == [out |-> "next"]
Jumps(label) == [out |-> "goto", label |-> label]
Traps == [out |-> "assert_false"]

RECURSIVE Exec(_, _), ExecSeq(_, _, _)
Exec(stmt, v) ==
    IF stmt.node = "Goto" THEN Jumps(stmt.target)
    ELSE IF stmt.node = "Assert"
    THEN IF stmt.exp = ast_false_lit THEN Traps ELSE Falls
    ELSE IF stmt.node = "If"
    THEN IF v[stmt.cond] THEN Exec(stmt.thn, v) ELSE Exec(stmt.els, v)
    ELSE IF stmt.node = "Seqn" THEN ExecSeq(stmt.stmts, 1, v)
    ELSE Falls

ExecSeq(stmts, k, v) ==
    IF k > Len(stmts) THEN Falls
    ELSE LET r == Exec(stmts[k], v)
         IN IF r = Falls THEN ExecSeq(stmts, k + 1, v) ELSE r

Valuations == [Conds -> BOOLEAN]

\* the first pair of a switch whose condition holds, 0 when none holds
FirstTrue(pairs, v) ==
    IF \E i \in 1..Len(pairs) : v[pairs[i][1]]
    THEN CHOOSE i \in 1..Len(pairs) :
            v[pairs[i][1]] /\ \A j \in 1..(i - 1) : ~ v[pairs[j][1]]
    ELSE 0

\* the label the lowered graph g has at the position of a target
ResolvedLabel(g, target) ==
    methods[g].basic_blocks_labels[target.block_index + 1]

\* the lowered successor statement of block i of g
LoweredSuccessor(g, i) == LoweredStmts(g)[i].stmts[3]

(* C7: executing the lowered form of GotoSwitch(pairs, default) reaches the
   target of the first pair, in list order, whose condition is true, for
   every truth assignment, and reaches default exactly when no condition is
   true (also when the pair list is empty).                                 *)
C7_SwitchFirstMatch ==
    \A g \in Graphs : IsLowered(g) =>
      \A i \in 1..Len(methods[g].basic_blocks) :
        LET s == methods[g].basic_blocks[i].successor
        IN s.kind = "GotoSwitch" =>
             \A v \in Valuations :
               LET k == FirstTrue(s.successors, v)
               IN Exec(LoweredSuccessor(g, i), v) =
                    IF k = 0
                    THEN Jumps(ResolvedLabel(g, s.default_target))
                    ELSE Jumps(ResolvedLabel(g, s.successors[k][2]))

\* a lowered switch of two pairs with different conditions and different
\* target labels: two conditional gotos and the default goto
C7_Witness ==
    \E g \in Graphs : \E i \in 1..Len(methods[g].basic_blocks) :
        LET s == methods[g].basic_blocks[i].successor
        IN /\ IsLowered(g)
           /\ s.kind = "GotoSwitch"
           /\ Len(s.successors) = 2
           /\ s.successors[1][1] /= s.successors[2][1]
           /\ ResolvedLabel(g, s.successors[1][2]) /=
                 ResolvedLabel(g, s.successors[2][2])
           /\ Len(LoweredSuccessor(g, i).stmts) = 3

(* C8: for a lowered graph whose successor targets were all minted by that
   graph, executing a block's lowered statement reaches the label of the
   block its successor selects: Goto(t) reaches t's label, GotoIf reaches
   then's label when the condition holds and else's label otherwise, Return
   reaches "return"; Unreachable lowers to an assertion of false.           *)
C8_ControlFlowEquivalent ==
    \A g \in Graphs : (IsLowered(g) /\ ~ HasForeignTarget(g)) =>
      \A i \in 1..Len(methods[g].basic_blocks) : \A v \in Valuations :
        LET s == methods[g].basic_blocks[i].successor
            run == Exec(LoweredStmts(g)[i], v)
        IN /\ s.kind = "Goto" => run = Jumps(LabelOf(s.target))
           /\ s.kind = "GotoIf" =>
                 run = Jumps(LabelOf(IF v[s.test] THEN s.then_target
                                                 ELSE s.else_target))
           /\ s.kind = "Return" => run = Jumps(RETURN_LABEL)
           /\ s.kind = "Unreachable" =>
                 /\ LoweredSuccessor(g, i) =
                       ast_assert(ast_false_lit, ast_no_position)
                 /\ run = Traps

\* a lowered GotoIf between two different blocks of its own graph
C8_Witness ==
    \E g \in Graphs : \E i \in 1..Len(methods[g].basic_blocks) :
        LET s == methods[g].basic_blocks[i].successor
        IN /\ IsLowered(g)
           /\ ~ HasForeignTarget(g)
           /\ s.kind = "GotoIf"
           /\ LabelOf(s.then_target) /= LabelOf(s.else_target)
           /\ LoweredSuccessor(g, i).node = "If"

(* C9: the successor statement of a block in the lowered output is the
   translation of the successor of the most recent successful set_successor
   on the block's token, and the block holds nothing else but its label
   marker and its body.                                                     *)
C9_LastWriteWins ==
    \A g \in Graphs : IsLowered(g) =>
      \A i \in 1..Len(methods[g].basic_blocks) :
        assigned[g][i] /= NotSet =>
          LoweredStmts(g)[i] =
            ast_seqn(<<ast_label(methods[g].basic_blocks_labels[i],
                                 methods[g].basic_blocks[i].invs),
                       methods[g].basic_blocks[i].stmt,
                       successor_to_ast(methods[g].basic_blocks_labels,
                                        assigned[g][i])>>,
                     <<>>)

\* the number of blocks that were assigned a successor
AssignedBlocks ==
    { <<g, i>> \in Graphs \X (1..MaxBlocks + 1) :
        i <= Len(assigned[g]) /\ assigned[g][i] /= NotSet }

\* a lowered graph on whose single block set_successor succeeded twice
C9_Witness ==
    \E g \in Graphs :
        /\ IsLowered(g)
        /\ writes = 2
        /\ AssignedBlocks = {<<g, 1>>}
        /\ assigned[g][1].kind = "Goto"

(* C10: a block on whose token set_successor never succeeded has successor
   Unreachable and lowers to an assertion of the literal false; lowering
   fails only because of an assigned successor, never because one is
   missing.                                                                 *)
C10_UnsetIsUnreachable ==
    \A g \in Graphs :
      /\ \A i \in 1..Len(methods[g].basic_blocks) :
            assigned[g][i] = NotSet =>
              /\ methods[g].basic_blocks[i].successor = Unreachable
              /\ IsLowered(g) =>
                    LoweredSuccessor(g, i) =
                      ast_assert(ast_false_lit, ast_no_position)
      /\ lowered[g].result = "panic" =>
            \E i \in 1..Len(methods[g].basic_blocks) :
                assigned[g][i] /= NotSet

\* a lowered graph with one assigned block and one block never assigned
C10_Witness ==
    \E g \in Graphs :
        /\ IsLowered(g)
        /\ Len(methods[g].basic_blocks) = 2
        /\ \E i \in 1..2 : assigned[g][i] = NotSet
        /\ \E i \in 1..2 : assigned[g][i] /= NotSet

-----------------------------------------------------------------------------
\* the local-variable declarations of the lowered body, in order
LocalDecls(g) ==
    SelectSeq(LoweredDecls(g), LAMBDA d : d.of.node = "LocalVarDecl")

(* C11: the lowered output of a graph has exactly (number of blocks + 1)
   label declarations and exactly (number of graph locals) local-variable
   declarations, whatever calls built the graph, a graph without blocks
   included.                                                                *)
C11_DeclarationCounts ==
    \A g \in Graphs : IsLowered(g) =>
        /\ Len(LabelDeclNames(g)) = Len(methods[g].basic_blocks) + 1
        /\ Len(LocalDecls(g)) = Len(Signature(g).local_vars)
        /\ Len(LoweredDecls(g)) =
             Len(LabelDeclNames(g)) + Len(LocalDecls(g))

\* a graph with two locals and no block has been lowered
C11_Witness ==
    /\ IsLowered("G1")
    /\ Len(methods["G1"].basic_blocks) = 0
    /\ Len(LocalDecls("G1")) = 2
    /\ Len(LabelDeclNames("G1")) = 1


-----------------------------------------------------------------------------
\* the arguments of the add_block call that created the block a token names
CreatedAt(token) == created[GraphOf(token)][token.block_index + 1]

\* the statement a stored successor is translated to, with every jump naming
\* the label text its target block was created with
TranslatedSuccessor(g, successor) ==
    IF successor.kind = "Unreachable"
    THEN ast_assert(ast_false_lit, ast_no_position)
    ELSE IF successor.kind = "Return"
    THEN ast_goto(return_label)
    ELSE IF successor.kind = "Goto"
    THEN ast_goto(CreatedAt(successor.target).label)
    ELSE successor_to_ast(methods[g].basic_blocks_labels, successor)

\* the label markers of the lowered body: the first statement of each block
\* and the statements of the body that are markers themselves
LabelMarkers(g) ==
    [k \in 1..Len(LoweredStmts(g)) |->
        IF LoweredStmts(g)[k].node = "Label" THEN LoweredStmts(g)[k].name
        ELSE LoweredStmts(g)[k].stmts[1].name]

(* C12: lowering emits the blocks in creation order: the i-th statement of
   the lowered body is the block created by the i-th successful add_block,
   made of the label marker with its invariants, its body and its translated
   successor; a Goto(b) of any block names the label text b was created
   with; the marker "return" appears exactly once, after all blocks.       *)
C12_CreationOrder ==
    \A g \in Graphs : IsLowered(g) =>
        LET n == Len(created[g])
            stmts == LoweredStmts(g)
        IN /\ Len(stmts) = n + 1
           /\ \A i \in 1..n :
                stmts[i] =
                  ast_seqn(<< ast_label(created[g][i].label,
                                        created[g][i].invs),
                              created[g][i].stmt,
                              TranslatedSuccessor(g,
                                  methods[g].basic_blocks[i].successor) >>,
                           <<>>)
           /\ stmts[n + 1] = ast_label(return_label, <<>>)
           /\ \A k \in 1..n : LabelMarkers(g)[k] /= return_label


-----------------------------------------------------------------------------
RECURSIVE GotoTargets(_)
\* the labels the goto statements of a lowered statement name
GotoTargets(stmt) ==
    IF stmt.node = "Goto" THEN {stmt.target}
    ELSE IF stmt.node = "If"
    THEN GotoTargets(stmt.thn) \cup GotoTargets(stmt.els)
    ELSE IF stmt.node = "Seqn"
    THEN UNION { GotoTargets(stmt.stmts[k]) : k \in 1..Len(stmt.stmts) }
    ELSE {}

\* the number of label declarations of the lowered body with a given name
DeclCount(g, name) ==
    Cardinality({ k \in 1..Len(LabelDeclNames(g)) :
                    LabelDeclNames(g)[k] = name })

\* to_ast has been called on g
WasLowered(g) == lowered[g].result /= "none"

(* C13: lowering cannot fail on a well-formed graph: when every successor
   target of a graph was minted by that graph, to_ast returns a procedure
   (it does not panic on an out-of-range position), and every goto of the
   output names a label that is declared exactly once.                      *)
C13_LoweringTotal ==
    \A g \in Graphs : (WasLowered(g) /\ ~ HasForeignTarget(g)) =>
        /\ IsLowered(g)
        /\ \A name \in GotoTargets(lowered[g].method.body) :
              DeclCount(g, name) = 1

\* a graph whose first block is a switch over its own blocks has been lowered
C13_Witness ==
    /\ IsLowered("G1")
    /\ ~ HasForeignTarget("G1")
    /\ methods["G1"].basic_blocks[1].successor.kind = "GotoSwitch"
    /\ Len(methods["G1"].basic_blocks[1].successor.successors) = 2
    /\ Cardinality(GotoTargets(lowered["G1"].method.body)) = 2


-----------------------------------------------------------------------------
\* a successor with the graph identity of its tokens erased
ErasedSuccessor(successor) ==
    IF successor.kind = "Goto"
    THEN [kind |-> "Goto", target |-> successor.target.block_index]
    ELSE IF successor.kind = "GotoSwitch"
    THEN [kind |-> "GotoSwitch",
          successors |-> [i \in 1..Len(successor.successors) |->
              <<successor.successors[i][1],
                successor.successors[i][2].block_index>>],
          default_target |-> successor.default_target.block_index]
    ELSE IF successor.kind = "GotoIf"
    THEN [kind |-> "GotoIf", test |-> successor.test,
          then_target |-> successor.then_target.block_index,
          else_target |-> successor.else_target.block_index]
    ELSE successor

\* the blocks of a graph with the graph identity of every token erased
ErasedBlocks(g) ==
    [i \in 1..Len(methods[g].basic_blocks) |->
        [invs |-> methods[g].basic_blocks[i].invs,
         stmt |-> methods[g].basic_blocks[i].stmt,
         successor |-> ErasedSuccessor(methods[g].basic_blocks[i].successor)]]

\* two graphs hold the same labels and the same blocks up to graph identity
SameBlocks(g, h) ==
    /\ methods[g].basic_blocks_labels = methods[h].basic_blocks_labels
    /\ ErasedBlocks(g) = ErasedBlocks(h)

\* the label declarations of the lowered body, in order
LabelDecls(g) == SelectSeq(LoweredDecls(g), LAMBDA d : d.of.node = "Label")

(* C14: the lowered output depends only on the final blocks, labels,
   successors and signature, not on the graph identity: two graphs with
   different identities that hold the same labels and the same blocks up to
   the identity of their tokens lower to the same statements and the same
   label declarations, and each output carries the signature of its own
   graph, so that the outputs differ at most where the signatures do.      *)
C14_IdentityNotInOutput ==
    \A g \in Graphs : \A h \in Graphs :
        (IsLowered(g) /\ IsLowered(h) /\ SameBlocks(g, h)) =>
            /\ LoweredStmts(g) = LoweredStmts(h)
            /\ LabelDecls(g) = LabelDecls(h)
            /\ lowered[g].method =
                 ast_method(Signature(g).method_name,
                            Signature(g).formal_args,
                            Signature(g).formal_returns, <<>>, <<>>,
                            ast_seqn(LoweredStmts(h),
                                     LocalDecls(g) \o LabelDecls(h)))

\* two graphs built by the same calls, each with one block that jumps to
\* itself through its own token, have both been lowered
C14_Witness ==
    /\ IsLowered("G1") /\ IsLowered("G2")
    /\ methods["G1"].uuid /= methods["G2"].uuid
    /\ [i \in 1..Len(created["G1"]) |->
          <<created["G1"][i].label, created["G1"][i].invs,
            created["G1"][i].stmt>>]
       = [i \in 1..Len(created["G2"]) |->
          <<created["G2"][i].label, created["G2"][i].invs,
            created["G2"][i].stmt>>]
    /\ Len(created["G1"]) = 1
    /\ methods["G1"].basic_blocks[1].successor.kind = "Goto"
    /\ methods["G1"].basic_blocks[1].successor /=
         methods["G2"].basic_blocks[1].successor
    /\ SameBlocks("G1", "G2")


-----------------------------------------------------------------------------
(* C15: lowering consumes the builder: once to_ast has been invoked on a
   graph, no step is an add_block, a set_successor or a to_ast on that
   graph, so each graph is lowered at most once and its blocks, labels and
   lowering result never change again.                                     *)
C15_LoweringConsumes ==
    [][\A g \in Graphs : WasLowered(g) =>
          /\ ~ to_ast(g)
          /\ \A b \in BlockInputs : ~ add_block(g, b.label, b.invs, b.stmt)
          /\ \A t \in Minted : \A s \in BuildSuccessors(Minted) :
                ~ set_successor(g, t, s)
          /\ methods'[g] = methods[g]
          /\ lowered'[g] = lowered[g]]_vars

\* a graph has been lowered and the other graph has been extended since
C15_Witness ==
    /\ WasLowered("G1")
    /\ ~ WasLowered("G2")
    /\ last.op = "add_block" /\ last.status = "ok"
    /\ Len(created["G2"]) = 1


-----------------------------------------------------------------------------
(* C16: a successful set_successor changes only the successor of one block,
   the one at the position of its token (the position the call is recorded
   at in assigned): the block count, every label, the body and the
   invariants of every block and the successor of every other block of
   every graph stay as they were; and no step of any operation changes the
   body or the invariants of a block that exists.                          *)
C16_SetSuccessorFrame ==
    [][/\ \/ last'.op /= "set_successor"
          \/ last'.status /= "ok"
          \/ \E g \in Graphs : \E p \in 1..Len(methods[g].basic_blocks) :
                /\ methods' = [methods EXCEPT
                      ![g].basic_blocks[p].successor =
                          methods'[g].basic_blocks[p].successor]
                /\ assigned' = [assigned EXCEPT ![g][p] =
                      methods'[g].basic_blocks[p].successor]
       /\ \A g \in Graphs : \A i \in 1..Len(methods[g].basic_blocks) :
             /\ i <= Len(methods'[g].basic_blocks)
             /\ methods'[g].basic_blocks[i].invs =
                  methods[g].basic_blocks[i].invs
             /\ methods'[g].basic_blocks[i].stmt =
                  methods[g].basic_blocks[i].stmt]_vars

\* the first of two blocks of a graph was just given a successor and the
\* second one still has the successor it was created with
C16_Witness ==
    /\ last.op = "set_successor" /\ last.status = "ok"
    /\ Len(methods["G1"].basic_blocks) = 2
    /\ methods["G1"].basic_blocks[1].successor.kind = "Goto"
    /\ assigned["G1"][2] = NotSet
    /\ methods["G1"].basic_blocks[2].successor = Unreachable
    /\ methods["G1"].basic_blocks[1].invs /= <<>>


-----------------------------------------------------------------------------
\* labels and blocks of every graph are aligned, and the label, invariants
\* and body at each position are the arguments of the add_block call that
\* created the position
AlignedWithCreation ==
    \A g \in Graphs :
        /\ Len(methods[g].basic_blocks_labels) = Len(methods[g].basic_blocks)
        /\ Len(created[g]) = Len(methods[g].basic_blocks)
        /\ \A t \in TokensOf(methods) : t.method_uuid = methods[g].uuid =>
              /\ t.block_index < Len(created[g])
              /\ LabelOf(t) = CreatedAt(t).label
              /\ methods[g].basic_blocks[t.block_index + 1].stmt =
                   CreatedAt(t).stmt
              /\ methods[g].basic_blocks[t.block_index + 1].invs =
                   CreatedAt(t).invs

\* the token a successful add_block returns names the block it appended
ReturnedTokenNamesNewBlock ==
    (last.op = "add_block" /\ last.status = "ok") =>
        /\ last.ret \in TokensOf(methods)
        /\ last.ret.block_index + 1 = Len(created[GraphOf(last.ret)])

\* a step keeps every block, label and successor that exists
KeepsEarlierBlocks ==
    \A g \in Graphs :
        /\ Len(methods'[g].basic_blocks) >= Len(methods[g].basic_blocks)
        /\ Len(methods'[g].basic_blocks_labels) >=
             Len(methods[g].basic_blocks_labels)
        /\ \A i \in 1..Len(methods[g].basic_blocks) :
              /\ methods'[g].basic_blocks[i] = methods[g].basic_blocks[i]
              /\ methods'[g].basic_blocks_labels[i] =
                   methods[g].basic_blocks_labels[i]

(* C17: add_block is append-only and keeps labels aligned with blocks: in
   every state the label sequence and the block sequence of a graph have
   the same length, and the label and body at the position of every minted
   token are the ones passed to the add_block call that minted it; a
   successful add_block leaves every earlier block, label and successor
   unchanged.                                                              *)
C17_AppendOnly ==
    /\ [](AlignedWithCreation /\ ReturnedTokenNamesNewBlock)
    /\ [][(last'.op = "add_block" /\ last'.status = "ok") =>
             KeepsEarlierBlocks]_vars

\* a second block was just added to a graph whose first block already has
\* an assigned successor
C17_Witness ==
    /\ last.op = "add_block" /\ last.status = "ok"
    /\ last.ret = CfgBlockIndex(methods["G1"].uuid, 1)
    /\ Len(methods["G1"].basic_blocks) = 2
    /\ methods["G1"].basic_blocks[1].successor.kind = "Goto"
    /\ methods["G1"].basic_blocks_labels[1] /=
         methods["G1"].basic_blocks_labels[2]


-----------------------------------------------------------------------------
\* the declaration list C18 describes, from the signature given at creation
\* and the labels of the add_block calls
ExpectedDecls(g) ==
    [i \in 1..Len(Signature(g).local_vars) |->
        [node |-> "Declaration", of |-> Signature(g).local_vars[i]]]
    \o [i \in 1..Len(created[g]) |->
        [node |-> "Declaration",
         of |-> ast_label(created[g][i].label, <<>>)]]
    \o << [node |-> "Declaration", of |-> ast_label(return_label, <<>>)] >>

(* C18: the declaration list of the lowered body is exactly one declaration
   per local of the graph in the original order, then one label declaration
   per block in creation order, then the declaration of the label "return";
   the procedure carries the name, formal parameters and returns given at
   creation and has no preconditions and no postconditions.                *)
C18_DeclarationList ==
    \A g \in Graphs : IsLowered(g) =>
        /\ LoweredDecls(g) = ExpectedDecls(g)
        /\ lowered[g].method.name = Signature(g).method_name
        /\ lowered[g].method.formal_args = Signature(g).formal_args
        /\ lowered[g].method.formal_returns = Signature(g).formal_returns
        /\ lowered[g].method.pres = <<>>
        /\ lowered[g].method.posts = <<>>

\* a graph with one parameter, one return, two locals and two blocks has
\* been lowered
C18_Witness ==
    /\ IsLowered("G1")
    /\ Len(created["G1"]) = 2
    /\ Len(LoweredDecls("G1")) = 5
    /\ Len(lowered["G1"].method.formal_args) = 1
    /\ Len(lowered["G1"].method.formal_returns) = 1


-----------------------------------------------------------------------------
(* C19: control never falls through from a lowered block into the next
   label: for every block of a lowered graph, whatever the variant of its
   successor, and for every truth assignment of the branch conditions,
   executing the lowered statement of the block ends in a taken goto or in
   an assertion of false; only the terminal label marker falls through.    *)
C19_NoFallThrough ==
    \A g \in Graphs : IsLowered(g) =>
        /\ \A i \in 1..Len(methods[g].basic_blocks) : \A v \in Valuations :
              LET run == Exec(LoweredStmts(g)[i], v)
              IN /\ run /= Falls
                 /\ run.out \in {"goto", "assert_false"}
        /\ \A v \in Valuations :
              Exec(LoweredStmts(g)[Len(LoweredStmts(g))], v) = Falls

\* a lowered graph whose first block is a switch of two pairs that takes its
\* default goto when no condition holds, and whose second block asserts false
C19_Witness ==
    /\ IsLowered("G1")
    /\ methods["G1"].basic_blocks[1].successor.kind = "GotoSwitch"
    /\ Len(methods["G1"].basic_blocks[1].successor.successors) = 2
    /\ Exec(LoweredStmts("G1")[1], [c \in Conds |-> FALSE]).out = "goto"
    /\ methods["G1"].basic_blocks[2].successor.kind = "Unreachable"
    /\ Exec(LoweredStmts("G1")[2], [c \in Conds |-> FALSE]) = Traps


-----------------------------------------------------------------------------
\* every token an add_block call returned names a position of its graph
MintedInRange ==
    \A t \in Minted :
        t.block_index < Len(methods[GraphOf(t)].basic_blocks)

(* C20: every minted token stays in range: in every state after the
   add_block call that returned it, the position of a token is below the
   block count of the graph that minted it; and no failing set_successor
   step is a call of a graph with one of its own tokens, so set_successor
   with a token of the same graph never indexes out of bounds.             *)
C20_TokensInRange ==
    /\ []MintedInRange
    /\ [][\/ last'.op /= "set_successor"
          \/ last'.status /= "panic"
          \/ \A g \in Graphs : \A t \in Minted :
                t.method_uuid = methods[g].uuid =>
                    \A s \in BuildSuccessors(Minted) :
                        ~ set_successor(g, t, s)]_vars

\* the second block of a graph was just given a successor through the token
\* its add_block call returned
C20_Witness ==
    /\ last.op = "set_successor" /\ last.status = "ok"
    /\ CfgBlockIndex(methods["G1"].uuid, 1) \in Minted
    /\ Len(methods["G1"].basic_blocks) = 2
    /\ assigned["G1"][1] = NotSet
    /\ assigned["G1"][2] /= NotSet

=============================================================================
